---- MODULE Spec2Model ----
(***************************************************************************)
(* Shop Drawing Review Tool (src/app_v2.py): the steel member designation  *)
(* parser and normalizer (MemberParser), the comparator (MemberComparator) *)
(* and the Compare flow of the Streamlit script.                           *)
(*                                                                         *)
(* A Python str is a sequence of one-character strings; the character      *)
(* U+00D7 is the string "×", a form feed is "\f".                          *)
(***************************************************************************)
EXTENDS Integers, Sequences, FiniteSets, TLC

VARIABLES
    \* MemberParser._normalize_member: one call and a second call on its result
    npc, member_str, member_type, normalized, renormalized,
    \* MemberParser.extract_members_from_text: one call
    ppc, text, members, unique_members,
    \* MemberComparator.compare_members and generate_detailed_report: one call each
    cpc, structural_members, shop_members, results, report,
    \* the Compare flow of the script
    pc, structural_pdfs, shop_pdfs, struct_page_range, shop_page_range,
    file_idx, extraction_method, all_structural_members, all_shop_members,
    unique_structural_members, unique_shop_members, comparison_results,
    detailed_report, messages, parsed_files,
    \* the cached MemberParser and repeated calls of extract_members_from_text on it
    member_parser, rpc, call_text, first_list, between_text, between_list,
    between_calls, second_list

normVars == <<npc, member_str, member_type, normalized, renormalized>>
parseVars == <<ppc, text, members, unique_members>>
cmpVars == <<cpc, structural_members, shop_members, results, report>>
flowVars == <<pc, structural_pdfs, shop_pdfs, struct_page_range, shop_page_range,
              file_idx, extraction_method, all_structural_members, all_shop_members,
              unique_structural_members, unique_shop_members, comparison_results,
              detailed_report, messages, parsed_files>>
cacheVars == <<member_parser, rpc, call_text, first_list, between_text,
               between_list, between_calls, second_list>>
vars == <<normVars, parseVars, cmpVars, flowVars, cacheVars>>

----------------------------------------------------------------------------
(* Python str operations on sequences of characters *)

LowerChars == <<"a","b","c","d","e","f","g","h","i","j","k","l","m",
                "n","o","p","q","r","s","t","u","v","w","x","y","z">>
UpperChars == <<"A","B","C","D","E","F","G","H","I","J","K","L","M",
                "N","O","P","Q","R","S","T","U","V","W","X","Y","Z">>

\* str.upper() on one character: letters a-z go to A-Z, all else is unchanged
UpperChar(c) ==
    IF \E i \in 1..Len(LowerChars) : LowerChars[i] = c
    THEN UpperChars[CHOOSE i \in 1..Len(LowerChars) : LowerChars[i] = c]
    ELSE c

\* str.upper()
Upper(s) == [i \in 1..Len(s) |-> UpperChar(s[i])]

\* \d of the re module, on the characters of the model
IsDigit(c) == c \in {"0","1","2","3","4","5","6","7","8","9"}

\* str.isspace() on one character, as str.strip() uses it
IsSpace(c) == c \in {" ", "\t", "\n", "\r", "\f"}

\* s[i:] starts with sub
StartsAt(s, i, sub) ==
    /\ i + Len(sub) - 1 <= Len(s)
    /\ \A j \in 1..Len(sub) : s[i + j - 1] = sub[j]

\* sub in s
Contains(s, sub) == \E i \in 1..(Len(s) + 1) : StartsAt(s, i, sub)

RECURSIVE ReplaceFrom(_, _, _, _)
ReplaceFrom(s, i, old, new) ==
    IF i > Len(s) THEN <<>>
    ELSE IF StartsAt(s, i, old)
         THEN new \o ReplaceFrom(s, i + Len(old), old, new)
         ELSE <<s[i]>> \o ReplaceFrom(s, i + 1, old, new)

\* s.replace(old, new), old non-empty: leftmost, non-overlapping
Replace(s, old, new) == ReplaceFrom(s, 1, old, new)

RECURSIVE LStripFrom(_, _)
LStripFrom(s, i) ==
    IF i <= Len(s) /\ IsSpace(s[i]) THEN LStripFrom(s, i + 1) ELSE i

RECURSIVE RStripFrom(_, _)
RStripFrom(s, j) ==
    IF j >= 1 /\ IsSpace(s[j]) THEN RStripFrom(s, j - 1) ELSE j

\* s.strip()
Strip(s) ==
    LET i == LStripFrom(s, 1)
        j == RStripFrom(s, Len(s))
    IN IF i > j THEN <<>> ELSE SubSeq(s, i, j)

RECURSIVE SplitFrom(_, _, _)
SplitFrom(s, i, cur) ==
    IF i > Len(s) THEN <<cur>>
    ELSE IF s[i] = "\n" THEN <<cur>> \o SplitFrom(s, i + 1, <<>>)
         ELSE SplitFrom(s, i + 1, Append(cur, s[i]))

\* s.split('\n')
SplitLines(s) == SplitFrom(s, 1, <<>>)

\* end of the longest run of digits starting at i (i - 1 when there is none)
RECURSIVE DigitsEnd(_, _)
DigitsEnd(s, i) ==
    IF i <= Len(s) /\ IsDigit(s[i]) THEN DigitsEnd(s, i + 1) ELSE i - 1

\* where \d+(?:\.\d+)? matched greedily at i ends (i - 1 when it fails)
NumberEnd(s, i) ==
    LET d == DigitsEnd(s, i)
    IN IF d < i THEN i - 1
       ELSE IF d + 1 <= Len(s) /\ s[d + 1] = "." /\ DigitsEnd(s, d + 2) >= d + 2
            THEN DigitsEnd(s, d + 2)
            ELSE d

RECURSIVE FindNumbersFrom(_, _)
FindNumbersFrom(s, i) ==
    IF i > Len(s) THEN <<>>
    ELSE LET e == NumberEnd(s, i)
         IN IF e >= i THEN <<SubSeq(s, i, e)>> \o FindNumbersFrom(s, e + 1)
            ELSE FindNumbersFrom(s, i + 1)

\* re.findall(r'\d+(?:\.\d+)?', s)
FindNumbers(s) == FindNumbersFrom(s, 1)

----------------------------------------------------------------------------
(* The regular expressions of MemberParser.patterns.  A pattern is a         *)
(* sequence of elements: "int" is (\d+), "num" is (\d+(?:\.\d+)?), "sep" is  *)
(* [Xx×], "notdigit" is (?!\d), and "alt" is a literal or a group of         *)
(* alternative literals, tried in order.  All matching is re.IGNORECASE.     *)

IntEl == [k |-> "int", alts |-> <<>>]
NumEl == [k |-> "num", alts |-> <<>>]
SepEl == [k |-> "sep", alts |-> <<>>]
NotDigitEl == [k |-> "notdigit", alts |-> <<>>]
Lit(s) == [k |-> "alt", alts |-> <<s>>]
Alt(a) == [k |-> "alt", alts |-> a]

\* the keys of self.patterns, in the order the dict holds them
PatternOrder ==
    <<"ub", "uc", "wb", "shs", "rhs", "chs", "angle", "angle_ea", "angle_ua_alt",
      "channel", "channel_simple", "tee", "flat", "plate", "rod",
      "ub_alt", "uc_alt", "wb_alt", "tfb", "wc">>

MemberTypes == {PatternOrder[i] : i \in 1..Len(PatternOrder)}

\* self.patterns[member_type]
patterns(t) ==
    CASE t = "ub" -> <<IntEl, Lit(<<"U","B">>), NumEl>>
      [] t = "uc" -> <<IntEl, Lit(<<"U","C">>), NumEl>>
      [] t = "wb" -> <<IntEl, Lit(<<"W","B">>), NumEl>>
      [] t = "shs" -> <<Lit(<<"S","H","S">>), NumEl, SepEl, NumEl>>
      [] t = "rhs" -> <<Lit(<<"R","H","S">>), NumEl, SepEl, NumEl, SepEl, NumEl>>
      [] t = "chs" -> <<Lit(<<"C","H","S">>), NumEl, SepEl, NumEl>>
      [] t = "angle" -> <<NumEl, SepEl, NumEl, SepEl, NumEl,
                          Alt(<< <<"U","A">>, <<"E","A">>, <<"L">> >>)>>
      [] t = "angle_ea" -> <<NumEl, Lit(<<"E","A">>), NumEl>>
      [] t = "angle_ua_alt" -> <<NumEl, SepEl, NumEl, Lit(<<"U","A">>), NumEl>>
      [] t = "channel" -> <<IntEl, Alt(<< <<"P","F","C">>, <<"U","C","A">> >>), NumEl>>
      [] t = "channel_simple" -> <<IntEl, Lit(<<"P","F","C">>), NotDigitEl>>
      [] t = "tee" -> <<IntEl, Lit(<<"B","T">>), NumEl>>
      [] t = "flat" -> <<NumEl, SepEl, NumEl, Alt(<< <<"F","L">>, <<"F","L","A","T">> >>)>>
      [] t = "plate" -> <<NumEl, SepEl, NumEl, SepEl, NumEl, Lit(<<"P","L">>)>>
      [] t = "rod" -> <<Lit(<<"M">>), IntEl>>
      [] t = "ub_alt" -> <<Lit(<<"U","B">>), IntEl, SepEl, NumEl>>
      [] t = "uc_alt" -> <<Lit(<<"U","C">>), IntEl, SepEl, NumEl>>
      [] t = "wb_alt" -> <<Lit(<<"W","B">>), IntEl, SepEl, NumEl>>
      [] t = "tfb" -> <<IntEl, Lit(<<"T","F","B">>), NumEl>>
      [] t = "wc" -> <<IntEl, Lit(<<"W","C">>), NumEl>>

\* the characters [Xx×] matches
IsSep(c) == c \in {"X", "x", "×"}

\* a literal of a pattern at s[i:], letter case ignored
LitAt(s, i, lit) ==
    /\ i + Len(lit) - 1 <= Len(s)
    /\ \A j \in 1..Len(lit) : UpperChar(s[i + j - 1]) = lit[j]

(* The backtracking matcher: Match(p, k, s, i) is the position after the    *)
(* match of the elements p[k..] at s[i:], or 0 when they do not match.      *)
(* Repetitions are greedy and give back what they took, longest first.      *)
RECURSIVE Match(_, _, _, _)
RECURSIVE TryAlts(_, _, _, _, _)
RECURSIVE TryInt(_, _, _, _, _)
RECURSIVE TryNum(_, _, _, _, _)
RECURSIVE TryFrac(_, _, _, _)

TryAlts(p, k, s, i, a) ==
    IF a > Len(p[k].alts) THEN 0
    ELSE LET r == IF LitAt(s, i, p[k].alts[a])
                  THEN Match(p, k + 1, s, i + Len(p[k].alts[a]))
                  ELSE 0
         IN IF r /= 0 THEN r ELSE TryAlts(p, k, s, i, a + 1)

\* \d+ taking s[i..e], then e - 1, ... down to one digit
TryInt(p, k, s, i, e) ==
    IF e < i THEN 0
    ELSE LET r == Match(p, k + 1, s, e + 1)
         IN IF r /= 0 THEN r ELSE TryInt(p, k, s, i, e - 1)

\* the optional (?:\.\d+) after the digits s[..d]: a fraction ending at f, then f - 1, ...
TryFrac(p, k, s, f) ==
    IF f < 1 \/ ~IsDigit(s[f]) THEN 0
    ELSE LET r == Match(p, k + 1, s, f + 1)
         IN IF r /= 0 THEN r ELSE TryFrac(p, k, s, f - 1)

\* \d+(?:\.\d+)? with the integer part s[i..d], then d - 1, ...
TryNum(p, k, s, i, d) ==
    IF d < i THEN 0
    ELSE LET withFrac == IF d + 1 <= Len(s) /\ s[d + 1] = "."
                         THEN TryFrac(p, k, s, DigitsEnd(s, d + 2))
                         ELSE 0
             without == Match(p, k + 1, s, d + 1)
         IN IF withFrac /= 0 THEN withFrac
            ELSE IF without /= 0 THEN without
            ELSE TryNum(p, k, s, i, d - 1)

Match(p, k, s, i) ==
    IF k > Len(p) THEN i
    ELSE CASE p[k].k = "alt" -> TryAlts(p, k, s, i, 1)
           [] p[k].k = "sep" ->
                IF i <= Len(s) /\ IsSep(s[i]) THEN Match(p, k + 1, s, i + 1) ELSE 0
           [] p[k].k = "notdigit" ->
                IF i <= Len(s) /\ IsDigit(s[i]) THEN 0 ELSE Match(p, k + 1, s, i)
           [] p[k].k = "int" -> TryInt(p, k, s, i, DigitsEnd(s, i))
           [] p[k].k = "num" -> TryNum(p, k, s, i, DigitsEnd(s, i))

RECURSIVE FindIterFrom(_, _, _)
FindIterFrom(p, s, i) ==
    IF i > Len(s) THEN <<>>
    ELSE LET e == Match(p, 1, s, i)
         IN IF e /= 0 THEN <<SubSeq(s, i, e - 1)>> \o FindIterFrom(p, s, e)
            ELSE FindIterFrom(p, s, i + 1)

\* [m.group(0) for m in re.finditer(pattern, line, re.IGNORECASE)]
FindIter(p, s) == FindIterFrom(p, s, 1)

----------------------------------------------------------------------------
(* MemberParser._normalize_member *)

\* member_type.upper() and member_type.replace('_alt', '').upper()
SectionType(t) ==
    CASE t \in {"ub", "ub_alt"} -> <<"U","B">>
      [] t \in {"uc", "uc_alt"} -> <<"U","C">>
      [] t \in {"wb", "wb_alt"} -> <<"W","B">>
      [] t = "tfb" -> <<"T","F","B">>
      [] t = "wc" -> <<"W","C">>

\* a plausible slip of UpperAndSeparators: the U+00D7 separator is left as it is
UpperAndSeparatorsNoTimes(raw) == Replace(Upper(raw), <<"X">>, <<"x">>)

\* member_str.upper().replace('X', 'x').replace('×', 'x')
UpperAndSeparators(raw) ==
    Replace(Replace(Upper(raw), <<"X">>, <<"x">>), <<"×">>, <<"x">>)

_normalize_member(raw, t) ==
    LET s == UpperAndSeparators(raw)
        parts == FindNumbers(s)
    IN CASE t \in {"ub", "uc", "wb", "tfb", "wc"} ->
              IF \E sec \in {<<"U","B">>, <<"U","C">>, <<"W","B">>, <<"T","F","B">>, <<"W","C">>} :
                     Contains(s, sec)
              THEN s
              ELSE IF Len(parts) >= 2 THEN parts[1] \o SectionType(t) \o parts[2] ELSE s
         [] t \in {"ub_alt", "uc_alt", "wb_alt"} ->
              IF Len(parts) >= 2 THEN parts[1] \o SectionType(t) \o parts[2] ELSE s
         [] t \in {"shs", "rhs", "chs"} -> s
         [] t \in {"angle", "angle_ea", "angle_ua_alt"} ->
              IF t = "angle_ea"
              THEN IF Len(parts) >= 2
                   THEN parts[1] \o <<"x">> \o parts[1] \o <<"x">> \o parts[2] \o <<"E","A">>
                   ELSE s
              ELSE IF Contains(s, <<"U","A">>) THEN Replace(s, <<"U","A">>, <<"U","A">>)
              ELSE IF Contains(s, <<"E","A">>) THEN Replace(s, <<"E","A">>, <<"E","A">>)
              ELSE IF Contains(s, <<"L">>) THEN Replace(s, <<"L">>, <<"U","A">>)
              ELSE s \o <<"U","A">>
         [] t \in {"channel", "channel_simple"} ->
              IF t = "channel_simple" THEN s \o <<"0">> ELSE s
         [] t = "tee" -> s
         [] t \in {"flat", "plate"} -> s
         [] t = "rod" -> s
         [] OTHER -> s

----------------------------------------------------------------------------
(* Inputs of _normalize_member.  extract_members_from_text calls it with    *)
(* match.group(0) and the key of the pattern that matched, so its inputs    *)
(* are the strings a pattern matches from their first to their last         *)
(* character.  The candidates are one to MaxDims numerals joined by a       *)
(* separator, with a letter group before them, or after them followed by    *)
(* an optional numeral; the patterns decide which are recognized.           *)

MaxDims == 3

Numerals == {<<"1">>, <<"2", ".", "5">>}

LetterGroups ==
    {<<"U","B">>, <<"U","C">>, <<"W","B">>, <<"S","H","S">>, <<"R","H","S">>,
     <<"C","H","S">>, <<"U","A">>, <<"E","A">>, <<"L">>, <<"P","F","C">>,
     <<"U","C","A">>, <<"B","T">>, <<"F","L">>, <<"F","L","A","T">>, <<"P","L">>,
     <<"M">>, <<"T","F","B">>, <<"W","C">>,
     <<"u","b">>, <<"u","c">>, <<"w","b">>, <<"s","h","s">>, <<"r","h","s">>,
     <<"c","h","s">>, <<"u","a">>, <<"e","a">>, <<"l">>, <<"p","f","c">>,
     <<"u","c","a">>, <<"b","t">>, <<"f","l">>, <<"f","l","a","t">>, <<"p","l">>,
     <<"m">>, <<"t","f","b">>, <<"w","c">>}

Separators == {"x", "X", "×"}

RECURSIVE DimGroups(_)
DimGroups(n) ==
    IF n = 1 THEN Numerals
    ELSE {g \o <<x>> \o d : g \in DimGroups(n - 1), x \in Separators, d \in Numerals}

AllDimGroups == UNION {DimGroups(n) : n \in 1..MaxDims}

Candidates ==
    {w \o g : w \in LetterGroups, g \in AllDimGroups}
    \cup {g \o w \o d : g \in AllDimGroups, w \in LetterGroups, d \in Numerals \cup {<<>>}}

\* the pattern of member_type matches raw from its first to its last character
Recognized(t, raw) == Match(patterns(t), 1, raw, 1) = Len(raw) + 1

RecognizedInputs ==
    {in \in Candidates \X MemberTypes : Recognized(in[2], in[1])}

\* normalized = self._normalize_member(match.group(0), member_type)
Normalize ==
    /\ npc = "start"
    /\ normalized' = _normalize_member(member_str, member_type)
    /\ npc' = "normalized"
    /\ UNCHANGED <<member_str, member_type, renormalized>>
    /\ UNCHANGED <<parseVars, cmpVars, flowVars, cacheVars>>

\* the normalizer applied to its own result, with the same member type
NormalizeAgain ==
    /\ npc = "normalized"
    /\ renormalized' = _normalize_member(normalized, member_type)
    /\ npc' = "renormalized"
    /\ UNCHANGED <<member_str, member_type, normalized>>
    /\ UNCHANGED <<parseVars, cmpVars, flowVars, cacheVars>>

----------------------------------------------------------------------------
(* MemberParser.extract_members_from_text *)

\* the member_info dict of one match
MemberInfo(raw, t, line_num, line) ==
    [raw_text |-> raw,
     normalized |-> _normalize_member(raw, t),
     type |-> t,
     line_number |-> line_num,
     context |-> Strip(line)]

\* the members one pattern finds on one line, in match order
PatternMembers(t, line_num, line) ==
    LET found == FindIter(patterns(t), line)
    IN [j \in 1..Len(found) |-> MemberInfo(found[j], t, line_num, line)]

\* the inner loop over self.patterns.items(), from the k-th pattern on
RECURSIVE LineMembers(_, _, _)
LineMembers(k, line_num, line) ==
    IF k > Len(PatternOrder) THEN <<>>
    ELSE PatternMembers(PatternOrder[k], line_num, line)
         \o LineMembers(k + 1, line_num, line)

\* the outer loop over enumerate(lines), from line n on: the list members
RECURSIVE TextMembers(_, _)
TextMembers(lines, n) ==
    IF n > Len(lines) THEN <<>>
    ELSE LineMembers(1, n, lines[n]) \o TextMembers(lines, n + 1)

\* a plausible slip of RemoveDuplicates: a later occurrence replaces the kept entry
RECURSIVE KeepLastFrom(_, _)
KeepLastFrom(ms, i) ==
    IF i > Len(ms) THEN <<>>
    ELSE IF \E j \in (i + 1)..Len(ms) : ms[j].normalized = ms[i].normalized
         THEN KeepLastFrom(ms, i + 1)
         ELSE <<ms[i]>> \o KeepLastFrom(ms, i + 1)

RemoveDuplicatesKeepLast(ms) == KeepLastFrom(ms, 1)

\* the loop "if member['normalized'] not in seen: append, add to seen"
RECURSIVE UniqueFrom(_, _, _)
UniqueFrom(ms, i, seen) ==
    IF i > Len(ms) THEN <<>>
    ELSE IF ms[i].normalized \notin seen
         THEN <<ms[i]>> \o UniqueFrom(ms, i + 1, seen \cup {ms[i].normalized})
         ELSE UniqueFrom(ms, i + 1, seen)

\* "Remove duplicates while preserving order"
RemoveDuplicates(ms) == UniqueFrom(ms, 1, {})

extract_members_from_text(t) == RemoveDuplicates(TextMembers(SplitLines(t), 1))

(* Inputs of extract_members_from_text: up to MaxLines lines, joined by     *)
(* line feeds.  The lines hold designations in several notations, repeated  *)
(* on one line and across lines, with blanks around them.                   *)

MaxLines == 3

SampleLines ==
    {<<"1","U","B","2">>,
     <<" ","U","B","1","x","2"," ","1","u","b","2">>,
     <<"2","U","C","1"," ","1","U","B","2"," ">>,
     <<"1","E","A","2"," ","1","×","1","X","2","e","a">>,
     <<"1","P","F","C"," ","M","1","2">>,
     <<>>}

RECURSIVE JoinLines(_)
JoinLines(ls) ==
    IF Len(ls) = 1 THEN ls[1] ELSE ls[1] \o <<"\n">> \o JoinLines(Tail(ls))

Texts ==
    {JoinLines(ls) : ls \in UNION {[1..n -> SampleLines] : n \in 1..MaxLines}}

\* one call of extract_members_from_text(text)
ExtractMembers ==
    /\ ppc = "start"
    /\ members' = TextMembers(SplitLines(text), 1)
    /\ unique_members' = RemoveDuplicates(members')
    /\ ppc' = "parsed"
    /\ UNCHANGED text
    /\ UNCHANGED <<normVars, cmpVars, flowVars, cacheVars>>

----------------------------------------------------------------------------
(* The MemberParser instance that get_processors() builds once and          *)
(* st.cache_resource hands back on every later run of the script.  Its only *)
(* attribute is patterns; extract_members_from_text reads it through self.  *)

\* MemberParser(): self.patterns, the dict items in insertion order
MemberParser ==
    [patterns |-> [k \in 1..Len(PatternOrder) |->
                     [member_type |-> PatternOrder[k],
                      pattern |-> patterns(PatternOrder[k])]]]

\* the matches of one item of self.patterns on one line, in match order
ItemMembers(item, line_num, line) ==
    LET found == FindIter(item.pattern, line)
    IN [j \in 1..Len(found) |-> MemberInfo(found[j], item.member_type, line_num, line)]

\* the inner loop over self.patterns.items(), from the k-th item on
RECURSIVE SelfLineMembers(_, _, _, _)
SelfLineMembers(self, k, line_num, line) ==
    IF k > Len(self.patterns) THEN <<>>
    ELSE ItemMembers(self.patterns[k], line_num, line)
         \o SelfLineMembers(self, k + 1, line_num, line)

\* the outer loop over enumerate(lines), from line n on
RECURSIVE SelfTextMembers(_, _, _)
SelfTextMembers(self, lines, n) ==
    IF n > Len(lines) THEN <<>>
    ELSE SelfLineMembers(self, 1, n, lines[n]) \o SelfTextMembers(self, lines, n + 1)

\* self.extract_members_from_text(t): the list returned
SelfExtract(self, t) == RemoveDuplicates(SelfTextMembers(self, SplitLines(t), 1))

\* a plausible slip of SelfAfterExtract: the call uses up the first pattern
SelfAfterExtractConsumed(self) ==
    [self EXCEPT !.patterns = IF @ = <<>> THEN @ ELSE Tail(@)]

\* self after the call: the method assigns no attribute and changes no dict
SelfAfterExtract(self) == self

(* Inputs: the text parsed twice is any of Texts; up to MaxBetweenCalls     *)
(* calls on other texts are made between the two calls.                     *)

MaxBetweenCalls == 2

BetweenTexts ==
    {<<"2","U","C","1">>,
     <<"1","P","F","C","\n","U","B","1","x","2">>}

\* the first call of member_parser.extract_members_from_text(call_text)
FirstCall ==
    /\ rpc = "start"
    /\ first_list' = SelfExtract(member_parser, call_text)
    /\ member_parser' = SelfAfterExtract(member_parser)
    /\ rpc' = "between"
    /\ UNCHANGED <<call_text, between_text, between_list, between_calls, second_list>>
    /\ UNCHANGED <<normVars, parseVars, cmpVars, flowVars>>

\* a call of member_parser.extract_members_from_text on some other text
CallBetween ==
    /\ rpc = "between"
    /\ between_calls < MaxBetweenCalls
    /\ \E t \in BetweenTexts :
           /\ between_text' = t
           /\ between_list' = SelfExtract(member_parser, t)
    /\ member_parser' = SelfAfterExtract(member_parser)
    /\ between_calls' = between_calls + 1
    /\ UNCHANGED <<rpc, call_text, first_list, second_list>>
    /\ UNCHANGED <<normVars, parseVars, cmpVars, flowVars>>

\* the second call of member_parser.extract_members_from_text(call_text)
SecondCall ==
    /\ rpc = "between"
    /\ second_list' = SelfExtract(member_parser, call_text)
    /\ member_parser' = SelfAfterExtract(member_parser)
    /\ rpc' = "again"
    /\ UNCHANGED <<call_text, first_list, between_text, between_list, between_calls>>
    /\ UNCHANGED <<normVars, parseVars, cmpVars, flowVars>>

----------------------------------------------------------------------------
(* MemberComparator.compare_members *)

\* {m['normalized'] for m in member_list}
NormalizedSet(ms) == {ms[i].normalized : i \in 1..Len(ms)}

\* a plausible slip of MissingInShop: the difference taken the other way round
MissingInShopSwapped(structural_set, shop_set) == shop_set \ structural_set

\* structural_set - shop_set
MissingInShop(structural_set, shop_set) == structural_set \ shop_set

\* a plausible slip of ExtraInShop: the structural designations are not taken out
ExtraInShopAll(structural_set, shop_set) == shop_set

\* shop_set - structural_set
ExtraInShop(structural_set, shop_set) == shop_set \ structural_set

Max(a, b) == IF a >= b THEN a ELSE b

\* a plausible slip of MatchPercentage: divided by the length of the list
MatchPercentageByCount(structural, shop) ==
    [num |-> Cardinality(NormalizedSet(structural) \cap NormalizedSet(shop)) * 100,
     den |-> Max(Len(structural), 1)]

(* len(structural_set & shop_set) / max(len(structural_set), 1) * 100, as   *)
(* the exact fraction num / den (the code's float is that fraction rounded) *)
MatchPercentage(structural, shop) ==
    [num |-> Cardinality(NormalizedSet(structural) \cap NormalizedSet(shop)) * 100,
     den |-> Max(Cardinality(NormalizedSet(structural)), 1)]

\* list(a_set): the elements once each, in an order the hash seed decides
ListsOf(S) ==
    {l \in [1..Cardinality(S) -> S] : \A e \in S : \E i \in 1..Cardinality(S) : l[i] = e}

\* the results compare_members may return
compare_members(structural, shop) ==
    LET structural_set == NormalizedSet(structural)
        shop_set == NormalizedSet(shop)
    IN {[matching_members |-> matching,
         missing_in_shop |-> missing,
         extra_in_shop |-> extra,
         structural_count |-> Len(structural),
         shop_count |-> Len(shop),
         match_percentage |-> MatchPercentage(structural, shop)] :
            matching \in ListsOf(structural_set \cap shop_set),
            missing \in ListsOf(MissingInShop(structural_set, shop_set)),
            extra \in ListsOf(ExtraInShop(structural_set, shop_set))}

(* Inputs of compare_members: lists of up to MaxMembers member dicts, taken *)
(* from what the parser finds in a text; two of them share a designation.   *)

MaxMembers == 2

MemberPool ==
    LET found == TextMembers(
            <<<<" ","U","B","1","x","2"," ","1","u","b","2">>,
              <<"2","U","C","1">>,
              <<"1","E","A","2">>>>, 1)
    IN {found[i] : i \in 1..Len(found)}

MemberLists == UNION {[1..n -> MemberPool] : n \in 0..MaxMembers}

\* one call of compare_members(structural_members, shop_members)
CompareMembers ==
    /\ cpc = "start"
    /\ results' \in compare_members(structural_members, shop_members)
    /\ cpc' = "compared"
    /\ UNCHANGED <<structural_members, shop_members, report>>
    /\ UNCHANGED <<normVars, parseVars, flowVars, cacheVars>>

----------------------------------------------------------------------------
(* MemberComparator.generate_detailed_report.  A row of the DataFrame is a  *)
(* function from the column names to the cell values.                       *)

\* the characters a normalized designation is made of, by rising code point
CodePointOrder ==
    <<".", "0", "1", "2", "3", "4", "5", "6", "7", "8", "9">> \o UpperChars \o <<"x">>

\* the rank of a character among them
CodePointRank(c) == CHOOSE i \in 1..Len(CodePointOrder) : CodePointOrder[i] = c

\* a < b for two str values
RECURSIVE StrLess(_, _)
StrLess(a, b) ==
    IF b = <<>> THEN FALSE
    ELSE IF a = <<>> THEN TRUE
    ELSE IF Head(a) = Head(b) THEN StrLess(Tail(a), Tail(b))
    ELSE CodePointRank(Head(a)) < CodePointRank(Head(b))

\* sorted(all_members)
RECURSIVE Sorted(_)
Sorted(S) ==
    IF S = {} THEN <<>>
    ELSE LET least == CHOOSE a \in S : \A b \in S \ {a} : StrLess(a, b)
         IN <<least>> \o Sorted(S \ {least})

\* None
None == <<>>

\* next((m for m in member_list if m['normalized'] == member), None); a dict
\* found is returned as a one-element tuple
RECURSIVE NextInfo(_, _, _)
NextInfo(member_list, i, member) ==
    IF i > Len(member_list) THEN None
    ELSE IF member_list[i].normalized = member THEN <<member_list[i]>>
    ELSE NextInfo(member_list, i + 1, member)

\* the truth value of struct_info / shop_info: a member dict is never empty
Truthy(info) == info /= None

\* a plausible slip of ReportStatus: the two one-sided cases exchanged
ReportStatusExchanged(struct_info, shop_info) ==
    IF Truthy(struct_info) /\ ~Truthy(shop_info) THEN "Extra in Shop"
    ELSE IF Truthy(shop_info) /\ ~Truthy(struct_info) THEN "Missing in Shop"
    ELSE "Match"

\* status, written without the symbol each of the three strings starts with
ReportStatus(struct_info, shop_info) ==
    IF Truthy(struct_info) /\ ~Truthy(shop_info) THEN "Missing in Shop"
    ELSE IF Truthy(shop_info) /\ ~Truthy(struct_info) THEN "Extra in Shop"
    ELSE "Match"

\* "Yes" if info else "No"
YesNo(info) == IF Truthy(info) THEN "Yes" ELSE "No"

\* the 'Structural Context' / 'Shop Context' cell
ContextCell(info) ==
    IF Truthy(info) /\ Len(info[1].context) > 50
    THEN SubSeq(info[1].context, 1, 50) \o <<".", ".", ".">>
    ELSE IF Truthy(info) THEN info[1].context ELSE <<>>

\* the dict appended to report_data for one member
ReportRow(structural, shop, member) ==
    LET struct_info == NextInfo(structural, 1, member)
        shop_info == NextInfo(shop, 1, member)
    IN ("Member" :> member)
       @@ ("Status" :> ReportStatus(struct_info, shop_info))
       @@ ("In Structural" :> YesNo(struct_info))
       @@ ("In Shop" :> YesNo(shop_info))
       @@ ("Structural Context" :> ContextCell(struct_info))
       @@ ("Shop Context" :> ContextCell(shop_info))

\* the rows of the DataFrame returned; the comparison_results argument is not read
generate_detailed_report(structural, shop, comparison) ==
    LET all_members == NormalizedSet(structural) \cup NormalizedSet(shop)
        order == Sorted(all_members)
    IN [i \in 1..Len(order) |-> ReportRow(structural, shop, order[i])]

\* one call of generate_detailed_report(structural_members, shop_members, results)
GenerateReport ==
    /\ cpc = "compared"
    /\ report' = generate_detailed_report(structural_members, shop_members, results)
    /\ cpc' = "reported"
    /\ UNCHANGED <<structural_members, shop_members, results>>
    /\ UNCHANGED <<normVars, parseVars, flowVars, cacheVars>>

----------------------------------------------------------------------------
(* PDFProcessor.extract_text_from_pdf and the Compare flow of the script.   *)
(* An uploaded file is [ok, pages]: ok is whether seek, read and pdfminer   *)
(* succeed on it, pages is the text of each of its pages.                   *)

\* pdfminer's extract_text(io.BytesIO(pdf_bytes)): every page, each ended by a form feed
RECURSIVE PdfminerExtractText(_)
PdfminerExtractText(pages) ==
    IF pages = <<>> THEN <<>>
    ELSE Head(pages) \o <<"\f">> \o PdfminerExtractText(Tail(pages))

\* a plausible slip of extract_text_from_pdf: the exception leaves the try block
ExtractTextUncaught(pdf_file, page_range) ==
    IF pdf_file.ok
    THEN [text |-> PdfminerExtractText(pdf_file.pages), error |-> FALSE, crashed |-> FALSE]
    ELSE [text |-> <<>>, error |-> FALSE, crashed |-> TRUE]

(* extract_text_from_pdf(pdf_file, page_range): the text returned, whether  *)
(* st.error was called, and whether an exception left the method.           *)
(* page_range is not read.                                                  *)
extract_text_from_pdf(pdf_file, page_range) ==
    IF pdf_file.ok
    THEN [text |-> PdfminerExtractText(pdf_file.pages), error |-> FALSE, crashed |-> FALSE]
    ELSE [text |-> <<>>, error |-> TRUE, crashed |-> FALSE]

\* page_range = None; if end_page > 0: page_range = (start_page, end_page)
PageRangeArg(range) == IF range[2] > 0 THEN range ELSE <<>>

\* a plausible slip of EmptyText: only the empty string counts as empty
EmptyTextNoStrip(t) == t = <<>>

\* not text.strip()
EmptyText(t) == Strip(t) = <<>>

\* a plausible slip of DedupAcrossFiles: the entry of the latest file is kept
DedupAcrossFilesKeepLast(ms) == KeepLastFrom(ms, 1)

\* "Remove duplicates across all structural files" and the same for the shop files
DedupAcrossFiles(ms) == UniqueFrom(ms, 1, {})

(* What one pass of a "for pdf_file in ..." loop does with the file: the    *)
(* members it adds, the st.error calls, and whether the parser was called.  *)
ProcessFile(pdf_file, range) ==
    LET Pass(got, skip) ==
            [crashed |-> got.crashed,
             method |-> pdf_file.ok,
             read_error |-> got.error,
             failed |-> ~got.crashed /\ skip,
             parsed |-> ~got.crashed /\ ~skip,
             found |-> IF got.crashed \/ skip THEN <<>>
                       ELSE extract_members_from_text(got.text)]
        Read(got) == Pass(got, EmptyText(got.text))
    IN Read(extract_text_from_pdf(pdf_file, PageRangeArg(range)))

MaxStructuralFiles == 2
MaxShopFiles == 1

SamplePdfs ==
    {[ok |-> FALSE, pages |-> << <<"2","U","C","1","\n">> >>],
     [ok |-> TRUE, pages |-> << <<" ", "\n">> >>],
     [ok |-> TRUE, pages |-> << <<"1","U","B","2","\n">>, <<"2","U","C","1","\n">> >>],
     [ok |-> TRUE, pages |-> << <<" ","U","B","1","x","2","\n","1","E","A","2","\n">> >>]}

\* (start page, end page) as the two number inputs give them; end 0 is "all"
PageRanges == {<<0, 0>>, <<2, 2>>}

\* the st.error calls of one pass, as (side, file index, what failed)
ErrorsOf(side, i, r) ==
    {<<side, i, "read">> : x \in IF r.read_error THEN {1} ELSE {}}
    \cup {<<side, i, "empty">> : x \in IF r.failed THEN {1} ELSE {}}

\* one pass of "for pdf_file in structural_pdfs"
ProcessStructuralFile ==
    /\ pc = "structural"
    /\ file_idx <= Len(structural_pdfs)
    /\ \E r \in {ProcessFile(structural_pdfs[file_idx], struct_page_range)} :
          /\ pc' = IF r.crashed THEN "crashed" ELSE pc
          /\ file_idx' = IF r.crashed THEN file_idx ELSE file_idx + 1
          /\ extraction_method' = IF r.method THEN "pdfminer" ELSE extraction_method
          /\ all_structural_members' = all_structural_members \o r.found
          /\ messages' = messages \cup ErrorsOf("structural", file_idx, r)
          /\ parsed_files' = parsed_files
                 \cup {<<"structural", file_idx>> : x \in IF r.parsed THEN {1} ELSE {}}
    /\ UNCHANGED <<structural_pdfs, shop_pdfs, struct_page_range, shop_page_range,
                   all_shop_members, unique_structural_members, unique_shop_members,
                   comparison_results, detailed_report>>
    /\ UNCHANGED <<normVars, parseVars, cmpVars, cacheVars>>

\* after the structural loop: remove duplicates across all structural files
DedupStructural ==
    /\ pc = "structural"
    /\ file_idx > Len(structural_pdfs)
    /\ unique_structural_members' = DedupAcrossFiles(all_structural_members)
    /\ pc' = "shop"
    /\ file_idx' = 1
    /\ UNCHANGED <<structural_pdfs, shop_pdfs, struct_page_range, shop_page_range,
                   extraction_method, all_structural_members, all_shop_members,
                   unique_shop_members, comparison_results, detailed_report,
                   messages, parsed_files>>
    /\ UNCHANGED <<normVars, parseVars, cmpVars, cacheVars>>

\* one pass of "for pdf_file in shop_pdfs"
ProcessShopFile ==
    /\ pc = "shop"
    /\ file_idx <= Len(shop_pdfs)
    /\ \E r \in {ProcessFile(shop_pdfs[file_idx], shop_page_range)} :
          /\ pc' = IF r.crashed THEN "crashed" ELSE pc
          /\ file_idx' = IF r.crashed THEN file_idx ELSE file_idx + 1
          /\ extraction_method' = IF r.method THEN "pdfminer" ELSE extraction_method
          /\ all_shop_members' = all_shop_members \o r.found
          /\ messages' = messages \cup ErrorsOf("shop", file_idx, r)
          /\ parsed_files' = parsed_files
                 \cup {<<"shop", file_idx>> : x \in IF r.parsed THEN {1} ELSE {}}
    /\ UNCHANGED <<structural_pdfs, shop_pdfs, struct_page_range, shop_page_range,
                   all_structural_members, unique_structural_members,
                   unique_shop_members, comparison_results,
                   detailed_report>>
    /\ UNCHANGED <<normVars, parseVars, cmpVars, cacheVars>>

\* after the shop loop: remove duplicates across all shop files
DedupShop ==
    /\ pc = "shop"
    /\ file_idx > Len(shop_pdfs)
    /\ unique_shop_members' = DedupAcrossFiles(all_shop_members)
    /\ pc' = "compare"
    /\ UNCHANGED <<structural_pdfs, shop_pdfs, struct_page_range, shop_page_range,
                   file_idx, extraction_method, all_structural_members, all_shop_members,
                   unique_structural_members, comparison_results, detailed_report,
                   messages, parsed_files>>
    /\ UNCHANGED <<normVars, parseVars, cmpVars, cacheVars>>

\* comparison_results = member_comparator.compare_members(...) and
\* detailed_report = member_comparator.generate_detailed_report(...)
CompareFlow ==
    /\ pc = "compare"
    /\ comparison_results' \in compare_members(unique_structural_members, unique_shop_members)
    /\ detailed_report' = generate_detailed_report(unique_structural_members,
                               unique_shop_members, comparison_results')
    /\ pc' = "done"
    /\ UNCHANGED <<structural_pdfs, shop_pdfs, struct_page_range, shop_page_range,
                   file_idx, extraction_method, all_structural_members, all_shop_members,
                   unique_structural_members, unique_shop_members, messages, parsed_files>>
    /\ UNCHANGED <<normVars, parseVars, cmpVars, cacheVars>>

----------------------------------------------------------------------------
(* The specifications: each starts one part of the program                *)
(* on its inputs and leaves the variables of the other parts idle.         *)

NoResults ==
    [matching_members |-> <<>>, missing_in_shop |-> <<>>, extra_in_shop |-> <<>>,
     structural_count |-> 0, shop_count |-> 0,
     match_percentage |-> [num |-> 0, den |-> 1]]

InitNorm ==
    /\ npc = "start"
    /\ \E in \in RecognizedInputs : member_str = in[1] /\ member_type = in[2]
    /\ normalized = <<>>
    /\ renormalized = <<>>
    /\ ppc = "idle"
    /\ text = <<>>
    /\ members = <<>>
    /\ unique_members = <<>>
    /\ cpc = "idle"
    /\ structural_members = <<>>
    /\ shop_members = <<>>
    /\ results = NoResults
    /\ report = <<>>
    /\ pc = "idle"
    /\ structural_pdfs = <<>>
    /\ shop_pdfs = <<>>
    /\ struct_page_range = <<0, 0>>
    /\ shop_page_range = <<0, 0>>
    /\ file_idx = 1
    /\ extraction_method = ""
    /\ all_structural_members = <<>>
    /\ all_shop_members = <<>>
    /\ unique_structural_members = <<>>
    /\ unique_shop_members = <<>>
    /\ comparison_results = NoResults
    /\ detailed_report = <<>>
    /\ messages = {}
    /\ parsed_files = {}
    /\ member_parser = MemberParser
    /\ rpc = "idle"
    /\ call_text = <<>>
    /\ first_list = <<>>
    /\ between_text = <<>>
    /\ between_list = <<>>
    /\ between_calls = 0
    /\ second_list = <<>>

NextNorm == Normalize \/ NormalizeAgain
SpecNorm == InitNorm /\ [][NextNorm]_vars

InitParse ==
    /\ ppc = "start"
    /\ text \in Texts
    /\ members = <<>>
    /\ unique_members = <<>>
    /\ npc = "idle"
    /\ member_str = <<>>
    /\ member_type = "rod"
    /\ normalized = <<>>
    /\ renormalized = <<>>
    /\ cpc = "idle"
    /\ structural_members = <<>>
    /\ shop_members = <<>>
    /\ results = NoResults
    /\ report = <<>>
    /\ pc = "idle"
    /\ structural_pdfs = <<>>
    /\ shop_pdfs = <<>>
    /\ struct_page_range = <<0, 0>>
    /\ shop_page_range = <<0, 0>>
    /\ file_idx = 1
    /\ extraction_method = ""
    /\ all_structural_members = <<>>
    /\ all_shop_members = <<>>
    /\ unique_structural_members = <<>>
    /\ unique_shop_members = <<>>
    /\ comparison_results = NoResults
    /\ detailed_report = <<>>
    /\ messages = {}
    /\ parsed_files = {}
    /\ member_parser = MemberParser
    /\ rpc = "idle"
    /\ call_text = <<>>
    /\ first_list = <<>>
    /\ between_text = <<>>
    /\ between_list = <<>>
    /\ between_calls = 0
    /\ second_list = <<>>

NextParse == ExtractMembers
SpecParse == InitParse /\ [][NextParse]_vars

InitCached ==
    /\ rpc = "start"
    /\ member_parser = MemberParser
    /\ call_text \in Texts
    /\ first_list = <<>>
    /\ between_text = <<>>
    /\ between_list = <<>>
    /\ between_calls = 0
    /\ second_list = <<>>
    /\ ppc = "idle"
    /\ text = <<>>
    /\ members = <<>>
    /\ unique_members = <<>>
    /\ npc = "idle"
    /\ member_str = <<>>
    /\ member_type = "rod"
    /\ normalized = <<>>
    /\ renormalized = <<>>
    /\ cpc = "idle"
    /\ structural_members = <<>>
    /\ shop_members = <<>>
    /\ results = NoResults
    /\ report = <<>>
    /\ pc = "idle"
    /\ structural_pdfs = <<>>
    /\ shop_pdfs = <<>>
    /\ struct_page_range = <<0, 0>>
    /\ shop_page_range = <<0, 0>>
    /\ file_idx = 1
    /\ extraction_method = ""
    /\ all_structural_members = <<>>
    /\ all_shop_members = <<>>
    /\ unique_structural_members = <<>>
    /\ unique_shop_members = <<>>
    /\ comparison_results = NoResults
    /\ detailed_report = <<>>
    /\ messages = {}
    /\ parsed_files = {}

NextCached == FirstCall \/ CallBetween \/ SecondCall
SpecCached == InitCached /\ [][NextCached]_vars

InitCompare ==
    /\ cpc = "start"
    /\ structural_members \in MemberLists
    /\ shop_members \in MemberLists
    /\ results = NoResults
    /\ report = <<>>
    /\ npc = "idle"
    /\ member_str = <<>>
    /\ member_type = "rod"
    /\ normalized = <<>>
    /\ renormalized = <<>>
    /\ ppc = "idle"
    /\ text = <<>>
    /\ members = <<>>
    /\ unique_members = <<>>
    /\ pc = "idle"
    /\ structural_pdfs = <<>>
    /\ shop_pdfs = <<>>
    /\ struct_page_range = <<0, 0>>
    /\ shop_page_range = <<0, 0>>
    /\ file_idx = 1
    /\ extraction_method = ""
    /\ all_structural_members = <<>>
    /\ all_shop_members = <<>>
    /\ unique_structural_members = <<>>
    /\ unique_shop_members = <<>>
    /\ comparison_results = NoResults
    /\ detailed_report = <<>>
    /\ messages = {}
    /\ parsed_files = {}
    /\ member_parser = MemberParser
    /\ rpc = "idle"
    /\ call_text = <<>>
    /\ first_list = <<>>
    /\ between_text = <<>>
    /\ between_list = <<>>
    /\ between_calls = 0
    /\ second_list = <<>>

NextCompare == CompareMembers \/ GenerateReport
SpecCompare == InitCompare /\ [][NextCompare]_vars

Init ==
    /\ pc = "structural"
    /\ structural_pdfs \in UNION {[1..n -> SamplePdfs] : n \in 1..MaxStructuralFiles}
    /\ shop_pdfs \in UNION {[1..n -> SamplePdfs] : n \in 1..MaxShopFiles}
    /\ struct_page_range \in PageRanges
    /\ shop_page_range \in PageRanges
    /\ file_idx = 1
    /\ extraction_method = ""
    /\ all_structural_members = <<>>
    /\ all_shop_members = <<>>
    /\ unique_structural_members = <<>>
    /\ unique_shop_members = <<>>
    /\ comparison_results = NoResults
    /\ detailed_report = <<>>
    /\ messages = {}
    /\ parsed_files = {}
    /\ member_parser = MemberParser
    /\ rpc = "idle"
    /\ call_text = <<>>
    /\ first_list = <<>>
    /\ between_text = <<>>
    /\ between_list = <<>>
    /\ between_calls = 0
    /\ second_list = <<>>
    /\ npc = "idle"
    /\ member_str = <<>>
    /\ member_type = "rod"
    /\ normalized = <<>>
    /\ renormalized = <<>>
    /\ ppc = "idle"
    /\ text = <<>>
    /\ members = <<>>
    /\ unique_members = <<>>
    /\ cpc = "idle"
    /\ structural_members = <<>>
    /\ shop_members = <<>>
    /\ results = NoResults
    /\ report = <<>>

Next ==
    \/ ProcessStructuralFile
    \/ DedupStructural
    \/ ProcessShopFile
    \/ DedupShop
    \/ CompareFlow
Spec == Init /\ [][Next]_vars

----------------------------------------------------------------------------
(* Properties of _normalize_member, under SpecNorm *)

\* C1: normalizing an already normalized designation, with the same member
\* type, returns it unchanged.
NormalizationIdempotent ==
    npc = "renormalized" => renormalized = normalized

\* the other accepted notation of the section a prefix-first, short equal-angle
\* or alternative unequal-angle designation names, with its member type
OtherNotations(raw, t) ==
    LET parts == FindNumbers(raw)
    IN CASE t = "ub_alt" -> {<<parts[1] \o <<"U","B">> \o parts[2], "ub">>}
         [] t = "uc_alt" -> {<<parts[1] \o <<"U","C">> \o parts[2], "uc">>}
         [] t = "wb_alt" -> {<<parts[1] \o <<"W","B">> \o parts[2], "wb">>}
         [] t = "angle_ea" ->
              {<<parts[1] \o <<"x">> \o parts[1] \o <<"x">> \o parts[2] \o <<"E","A">>,
                 "angle">>}
         [] t = "angle_ua_alt" ->
              {<<parts[1] \o <<"x">> \o parts[2] \o <<"x">> \o parts[3] \o <<"U","A">>,
                 "angle">>}
         [] OTHER -> {}

\* C5: two accepted notations of the same section normalize to the same
\* string: UB310x46.2 as 310UB46.2 (likewise UC, WB), 75EA6 as 75x75x6EA,
\* and 150x90UA10 as 150x90x10UA.
OneCanonicalForm ==
    npc = "normalized" =>
        \A o \in OtherNotations(member_str, member_type) :
            /\ Recognized(o[2], o[1])
            /\ _normalize_member(o[1], o[2]) = normalized

LowerChar(c) ==
    IF \E i \in 1..Len(UpperChars) : UpperChars[i] = c
    THEN LowerChars[CHOOSE i \in 1..Len(UpperChars) : UpperChars[i] = c]
    ELSE c

\* what a character may become: a separator any separator, a letter either case
CharVariants(c) ==
    IF c \in {"x", "X", "×"} THEN {"x", "X", "×"} ELSE {c, UpperChar(c), LowerChar(c)}

RECURSIVE Variants(_)
Variants(s) ==
    IF s = <<>> THEN {<<>>}
    ELSE {<<c>> \o v : c \in CharVariants(Head(s)), v \in Variants(Tail(s))}

\* C6: every variant of a recognized designation in letter case or in the
\* separators x, X, × is recognized with the same member type and has the
\* same normalized string.
CaseAndSeparatorInsensitive ==
    npc = "normalized" =>
        \A v \in Variants(member_str) :
            /\ Recognized(member_type, v)
            /\ _normalize_member(v, member_type) = normalized

\* a designation with a lower-case letter and a × separator has been normalized
CaseAndSeparatorWitness ==
    /\ npc = "normalized"
    /\ member_type = "angle"
    /\ \E i \in 1..Len(member_str) : member_str[i] = "×"
    /\ \E i \in 1..Len(member_str) : member_str[i] = "l"
    /\ normalized /= member_str

----------------------------------------------------------------------------
(* Properties of extract_members_from_text, under SpecParse *)

\* the index in ms of the first entry with designation d
FirstIndex(ms, d) == CHOOSE i \in 1..Len(ms) :
    /\ ms[i].normalized = d
    /\ \A j \in 1..(i - 1) : ms[j].normalized /= d

\* C4: the returned list holds exactly one entry per distinct normalized
\* designation found, the entry kept is the first occurrence seen, and the
\* entries are in first-seen order.
OneEntryPerDesignation ==
    ppc = "parsed" =>
        /\ \A i, j \in 1..Len(unique_members) :
               i /= j => unique_members[i].normalized /= unique_members[j].normalized
        /\ NormalizedSet(unique_members) = NormalizedSet(members)
        /\ \A i \in 1..Len(unique_members) :
               unique_members[i] = members[FirstIndex(members, unique_members[i].normalized)]
        /\ \A i, j \in 1..Len(unique_members) :
               i < j => FirstIndex(members, unique_members[i].normalized)
                            < FirstIndex(members, unique_members[j].normalized)

\* a designation found on two lines and in two notations is kept once, among others
OneEntryWitness ==
    /\ ppc = "parsed"
    /\ Len(unique_members) >= 2
    /\ \E i, j \in 1..Len(members) :
           /\ members[i].normalized = members[j].normalized
           /\ members[i].line_number < members[j].line_number
           /\ members[i].raw_text /= members[j].raw_text
           /\ \E k \in 1..Len(unique_members) : unique_members[k] = members[i]
           /\ \A k \in 1..Len(unique_members) : unique_members[k] /= members[j]

----------------------------------------------------------------------------
(* Properties of repeated calls on the cached parser, under SpecCached *)

\* C11: two calls of extract_members_from_text on the same text, on the same
\* cached parser instance and with any other calls in between, return
\* identical lists: equal in length, in order and in every field of every entry.
ParsingDeterministic ==
    rpc = "again" =>
        /\ Len(second_list) = Len(first_list)
        /\ \A i \in 1..Len(first_list) :
               /\ second_list[i].raw_text = first_list[i].raw_text
               /\ second_list[i].normalized = first_list[i].normalized
               /\ second_list[i].type = first_list[i].type
               /\ second_list[i].line_number = first_list[i].line_number
               /\ second_list[i].context = first_list[i].context

\* a text with several members, matched by the first pattern among others,
\* parsed again after calls on another text
ParsedTwiceWitness ==
    /\ rpc = "again"
    /\ between_calls = MaxBetweenCalls
    /\ between_text /= call_text
    /\ between_list /= <<>>
    /\ Len(second_list) >= 2
    /\ \E i, j \in 1..Len(second_list) :
           /\ second_list[i].type = "ub"
           /\ second_list[j].type /= "ub"

----------------------------------------------------------------------------
(* Properties of compare_members, under SpecCompare.  A percentage is the   *)
(* fraction num / den, so "equals q" is num = q * den.                      *)

\* the elements of a list
Elements(l) == {l[i] : i \in 1..Len(l)}

\* C2 as stated: comparing any list with itself, the empty list included,
\* gives 100 percent and nothing missing or extra.
SelfCompareAlwaysFull ==
    (cpc = "compared" /\ structural_members = shop_members) =>
        /\ results.match_percentage.num = 100 * results.match_percentage.den
        /\ results.missing_in_shop = <<>>
        /\ results.extra_in_shop = <<>>

\* C2 as amended: comparing a list with itself gives nothing missing or
\* extra, and 100 percent when the list is non-empty, 0 when it is empty.
SelfCompareFull ==
    (cpc = "compared" /\ structural_members = shop_members) =>
        /\ results.missing_in_shop = <<>>
        /\ results.extra_in_shop = <<>>
        /\ IF structural_members = <<>>
           THEN results.match_percentage.num = 0
           ELSE results.match_percentage.num = 100 * results.match_percentage.den

\* a list that names a designation twice has been compared with itself
SelfCompareWitness ==
    /\ cpc = "compared"
    /\ structural_members = shop_members
    /\ Len(structural_members) > Cardinality(NormalizedSet(structural_members))
    /\ results.match_percentage.num = 100 * results.match_percentage.den

\* C3: comparing a structural list with the empty shop list gives 0 percent,
\* every designation of the structural list missing, nothing matching or extra.
CompareWithEmptyShop ==
    (cpc = "compared" /\ shop_members = <<>>) =>
        /\ results.match_percentage.num = 0
        /\ Elements(results.missing_in_shop) = NormalizedSet(structural_members)
        /\ results.matching_members = <<>>
        /\ results.extra_in_shop = <<>>

\* a structural list of two designations has been compared with the empty list
EmptyShopWitness ==
    /\ cpc = "compared"
    /\ shop_members = <<>>
    /\ Len(results.missing_in_shop) = 2

\* C10: with S and H the designation sets of the two lists, the percentage is
\* 100 * |S \cap H| / |S| when S is non-empty and 0 when S is empty, and it
\* lies between 0 and 100, also when a list repeats a designation.
PercentageOfStructuralSet ==
    cpc = "compared" =>
        LET S == NormalizedSet(structural_members)
            H == NormalizedSet(shop_members)
            q == results.match_percentage
        IN /\ q.den > 0
           /\ S /= {} => q.num * Cardinality(S) = 100 * Cardinality(S \cap H) * q.den
           /\ S = {} => q.num = 0
           /\ 0 <= q.num /\ q.num <= 100 * q.den

\* a structural list that repeats a designation has been compared, and a
\* designation of it matched
PercentageWitness ==
    /\ cpc = "compared"
    /\ Len(structural_members) > Cardinality(NormalizedSet(structural_members))
    /\ Len(shop_members) > 0
    /\ results.match_percentage.num > 0

\* a list without repeated elements
NoRepeats(l) == Cardinality(Elements(l)) = Len(l)

\* C12: the three result lists of compare_members partition the designations:
\* matching_members, missing_in_shop and extra_in_shop are pairwise disjoint
\* and free of repeats, matching_members with missing_in_shop is exactly the
\* set of structural designations, and matching_members with extra_in_shop is
\* exactly the set of shop designations.
ResultsPartition ==
    cpc = "compared" =>
        LET matching == Elements(results.matching_members)
            missing == Elements(results.missing_in_shop)
            extra == Elements(results.extra_in_shop)
        IN /\ matching \cap missing = {}
           /\ matching \cap extra = {}
           /\ missing \cap extra = {}
           /\ NoRepeats(results.matching_members)
           /\ NoRepeats(results.missing_in_shop)
           /\ NoRepeats(results.extra_in_shop)
           /\ matching \cup missing = NormalizedSet(structural_members)
           /\ matching \cup extra = NormalizedSet(shop_members)

\* a comparison with a matching, a missing and an extra designation
PartitionWitness ==
    /\ cpc = "compared"
    /\ results.matching_members /= <<>>
    /\ results.missing_in_shop /= <<>>
    /\ results.extra_in_shop /= <<>>

\* C13: the detailed report has exactly one row per designation in the union
\* of both lists, in ascending designation order; a row's status is 'Match'
\* exactly when its designation is in matching_members, 'Missing in Shop'
\* exactly when it is in missing_in_shop and 'Extra in Shop' exactly when it
\* is in extra_in_shop; its 'In Structural' and 'In Shop' flags tell whether
\* the designation is in each list.
ReportAgreesWithResults ==
    cpc = "reported" =>
        LET structural_set == NormalizedSet(structural_members)
            shop_set == NormalizedSet(shop_members)
        IN /\ {report[i]["Member"] : i \in 1..Len(report)} = structural_set \cup shop_set
           /\ Len(report) = Cardinality(structural_set \cup shop_set)
           /\ \A i, j \in 1..Len(report) :
                  i < j => StrLess(report[i]["Member"], report[j]["Member"])
           /\ \A i \in 1..Len(report) :
                  LET row == report[i]
                  IN /\ row["Status"] = "Match"
                            <=> row["Member"] \in Elements(results.matching_members)
                     /\ row["Status"] = "Missing in Shop"
                            <=> row["Member"] \in Elements(results.missing_in_shop)
                     /\ row["Status"] = "Extra in Shop"
                            <=> row["Member"] \in Elements(results.extra_in_shop)
                     /\ row["In Structural"] = "Yes" <=> row["Member"] \in structural_set
                     /\ row["In Structural"] = "No" <=> row["Member"] \notin structural_set
                     /\ row["In Shop"] = "Yes" <=> row["Member"] \in shop_set
                     /\ row["In Shop"] = "No" <=> row["Member"] \notin shop_set

\* a report with a row of each status, from lists given in another order
ReportWitness ==
    /\ cpc = "reported"
    /\ \A st \in {"Match", "Missing in Shop", "Extra in Shop"} :
           \E i \in 1..Len(report) : report[i]["Status"] = st
    /\ Len(structural_members) = MaxMembers
    /\ StrLess(structural_members[MaxMembers].normalized, structural_members[1].normalized)

----------------------------------------------------------------------------
(* Properties of the Compare flow, under Spec *)

FilesOf(side) == IF side = "structural" THEN structural_pdfs ELSE shop_pdfs
AllMembersOf(side) ==
    IF side = "structural" THEN all_structural_members ELSE all_shop_members
UniqueMembersOf(side) ==
    IF side = "structural" THEN unique_structural_members ELSE unique_shop_members
RangeOf(side) == IF side = "structural" THEN struct_page_range ELSE shop_page_range
Sides == {"structural", "shop"}

\* how many files of the side its loop has gone past
NumPassed(side) ==
    IF side = "structural"
    THEN IF pc = "structural" THEN file_idx - 1 ELSE Len(structural_pdfs)
    ELSE IF pc = "structural" THEN 0
         ELSE IF pc = "shop" THEN file_idx - 1 ELSE Len(shop_pdfs)

\* text extraction raises on the file, or yields empty or whitespace-only text
Unreadable(pdf_file) ==
    ~pdf_file.ok
    \/ \A p \in 1..Len(pdf_file.pages) :
           \A i \in 1..Len(pdf_file.pages[p]) : IsSpace(pdf_file.pages[p][i])

\* what the parser finds in the whole text of a readable file
MembersInFile(pdf_file) ==
    IF Unreadable(pdf_file) THEN <<>>
    ELSE extract_members_from_text(PdfminerExtractText(pdf_file.pages))

\* for each of the first n files, the members of the file if it is readable
RECURSIVE MembersPerFile(_, _)
MembersPerFile(files, n) ==
    IF n = 0 THEN <<>>
    ELSE MembersPerFile(files, n - 1) \o <<MembersInFile(files[n])>>

RECURSIVE Flatten(_)
Flatten(ls) == IF ls = <<>> THEN <<>> ELSE Head(ls) \o Flatten(Tail(ls))

\* C7: a file whose text extraction raises or yields empty or whitespace-only
\* text is reported with an error and skipped: the parser is never called for
\* it, it adds no member, the other files are still processed and the
\* comparison completes: no exception takes the flow out of its loops, and
\* the lists it reaches the comparison with are those of all the readable files.
UnreadableFilesSkipped ==
    /\ pc \in {"structural", "shop", "compare", "done"}
    /\ \A side \in Sides :
           /\ \A i \in 1..NumPassed(side) :
                  IF Unreadable(FilesOf(side)[i])
                  THEN /\ \E m \in messages : m[1] = side /\ m[2] = i
                       /\ <<side, i>> \notin parsed_files
                  ELSE <<side, i>> \in parsed_files
           /\ pc = "compare" =>
                  /\ NumPassed(side) = Len(FilesOf(side))
                  /\ AllMembersOf(side) =
                         Flatten(MembersPerFile(FilesOf(side), Len(FilesOf(side))))

\* the comparison completed after a file that raises, a whitespace-only file
\* or both were skipped and a later file gave members
SkippedWitness ==
    /\ pc = "compare"
    /\ Len(structural_pdfs) = 2
    /\ Unreadable(structural_pdfs[1])
    /\ ~Unreadable(structural_pdfs[2])
    /\ <<"structural", 2>> \in parsed_files
    /\ unique_structural_members /= <<>>
    /\ \E i \in 1..Len(shop_pdfs) : shop_pdfs[i].ok /\ Unreadable(shop_pdfs[i])

\* page p (the first page is 1) is outside [start, end] whether the range
\* counts pages from 0 or from 1
OutsideRange(p, range) == p < range[1] \/ p > range[2] + 1

\* designation d occurs in the files only on pages outside the range
OnlyOutsideRange(d, files, range) ==
    \A i \in 1..Len(files) : \A p \in 1..Len(files[i].pages) :
        d \in NormalizedSet(extract_members_from_text(files[i].pages[p]))
            => OutsideRange(p, range)

\* C8: with an end page greater than 0 for a side, a designation that occurs
\* only on pages outside [start page, end page] is not among the members
\* extracted for that side.
PageRangeRespected ==
    pc = "done" =>
        \A side \in Sides :
            RangeOf(side)[2] > 0 =>
                \A d \in NormalizedSet(UniqueMembersOf(side)) :
                    ~OnlyOutsideRange(d, FilesOf(side), RangeOf(side))

\* the first of the member lists per in which designation d occurs
FirstListWith(per, d) == CHOOSE i \in 1..Len(per) :
    /\ d \in NormalizedSet(per[i])
    /\ \A j \in 1..(i - 1) : d \notin NormalizedSet(per[j])

\* C9: the member list of a side passed to compare_members names no
\* designation twice, holds every designation extracted from a readable file
\* of the side, and keeps for each the entry of the earliest file.
NoDuplicatesAcrossFiles ==
    pc = "compare" =>
        \A side \in Sides :
            \A per \in {MembersPerFile(FilesOf(side), Len(FilesOf(side)))} :
                LET u == UniqueMembersOf(side)
                IN /\ \A i, j \in 1..Len(u) : i /= j => u[i].normalized /= u[j].normalized
                   /\ NormalizedSet(u) = UNION {NormalizedSet(per[i]) : i \in 1..Len(per)}
                   /\ \A i \in 1..Len(u) :
                          u[i] \in Elements(per[FirstListWith(per, u[i].normalized)])

\* two files of a side name the same designation in different notations
AcrossFilesWitness ==
    /\ pc = "compare"
    /\ Len(structural_pdfs) = 2
    /\ \E a \in Elements(MembersInFile(structural_pdfs[1])) :
       \E b \in Elements(MembersInFile(structural_pdfs[2])) :
           /\ a.normalized = b.normalized
           /\ a.raw_text /= b.raw_text
           /\ a \in Elements(unique_structural_members)
           /\ b \notin Elements(unique_structural_members)
    /\ ~Unreadable(structural_pdfs[1])
    /\ ~Unreadable(structural_pdfs[2])

====
